---- MODULE Spec2Model ----
(***************************************************************************)
(* A model of crypto_logger.py: the three fetchers (get_fear_greed_index,  *)
(* get_crypto_prices, get_funding_rates) and the run log_crypto_data that  *)
(* calls them, builds one record and persists it to crypto_data.csv and    *)
(* latest_data.json.                                                       *)
(*                                                                         *)
(* Python values are records [t, s, n]:                                    *)
(*   Str(s)     a str                                                      *)
(*   Num(x)     an int or float                                            *)
(*   NumStr(x)  a str holding the numeral of x (JSON "65000", a CSV cell)  *)
(*   Pct(m)     the str f"{rate:.4f}%" of a rate of m millionths           *)
(*   Absent     the key is not in the dict / list (lookup raises)          *)
(*   NaN        pandas' missing value                                      *)
(* An HTTP exchange is a record [exc, status, body]: exc means that        *)
(* requests.get raised; body.json = FALSE means response.json() raises.    *)
(***************************************************************************)
EXTENDS Integers, Sequences, FiniteSets, TLC

VARIABLES
    pc,              \* position in the function being executed
    requests,        \* endpoints requested by the function being executed
    response,        \* local `response` of the function being executed
    ret,             \* outcome of the last get_fear_greed_index call
    primary_failure, \* how the CoinGecko try block ended
    prices,          \* local `prices` of get_crypto_prices / of log_crypto_data
    funding_rates,   \* local `funding_rates` of get_funding_rates
    tier1_rates,     \* funding_rates as the CoinGlass loop left it
    i,               \* position of the CoinGlass loop in `symbols`
    final_rates,     \* local `final_rates` / `funding_rates` of log_crypto_data
    fear_greed,      \* local `fear_greed` of log_crypto_data
    now,             \* `now_central` of the run
    data_row,        \* local `data_row` of log_crypto_data
    csv,             \* the file crypto_data.csv
    latest_json,     \* the file latest_data.json
    csv_before,      \* crypto_data.csv as the run found it
    json_before,     \* latest_data.json as the run found it
    runs             \* completed runs

vars == <<pc, requests, response, ret, primary_failure, prices, funding_rates,
          tier1_rates, i, final_rates, fear_greed, now, data_row, csv,
          latest_json, csv_before, json_before, runs>>

----------------------------------------------------------------------------
(* Bounds of the model *)

MaxEntries == 2   \* entries of a `data` list (sentiment, CoinGlass)
MaxIndex == 3     \* largest sentiment index value served
MaxTickers == 2   \* entries of the Binance ticker list
MaxItems == 2     \* entries of the OKX `data` list
MaxRuns == 2      \* runs of log_crypto_data

(* Program constants *)

HTTP_OK == 200

----------------------------------------------------------------------------
(* Values *)

Str(s) == [t |-> "str", s |-> s, n |-> 0]
Num(x) == [t |-> "num", s |-> "", n |-> x]
NumStr(x) == [t |-> "numstr", s |-> "", n |-> x]
Pct(m) == [t |-> "pct", s |-> "", n |-> m]
Absent == [t |-> "absent", s |-> "", n |-> 0]
NaN == [t |-> "nan", s |-> "", n |-> 0]
Null == [t |-> "null", s |-> "", n |-> 0]

NA == Str("N/A")
APIBlocked == Str("API Blocked")

\* float(v): the conversion succeeds on a number and on a numeral string
FloatRaises(v) == v.t \notin {"num", "numstr"}
Float(v) == Num(v.n)

SeqsUpTo(S, n) == UNION {[1..k -> S] : k \in 0..n}

NoResponse == [exc |-> FALSE, status |-> 0, body |-> [json |-> FALSE]]
Raised == [exc |-> TRUE, status |-> 0, body |-> [json |-> FALSE]]
NotJson == [json |-> FALSE]
Statuses == {HTTP_OK, 429, 500}
Answers(bodies) == {Raised} \cup
    {[exc |-> FALSE, status |-> st, body |-> b] : st \in Statuses, b \in bodies}

----------------------------------------------------------------------------
(* get_fear_greed_index *)

SentimentEntries == {[value |-> v] : v \in {Absent} \cup {NumStr(x) : x \in 0..MaxIndex}}
SentimentBodies == {NotJson, [json |-> TRUE, hasData |-> FALSE, data |-> <<>>]} \cup
    {[json |-> TRUE, hasData |-> TRUE, data |-> d] : d \in SeqsUpTo(SentimentEntries, MaxEntries)}
SentimentResponses == Answers(SentimentBodies)

\* the try block: requests.get, response.json(), data['data'][0]['value']
FearGreedTry(r) ==
    IF r.exc THEN [raised |-> TRUE, value |-> Absent]
    ELSE IF ~r.body.json THEN [raised |-> TRUE, value |-> Absent]
    ELSE IF ~r.body.hasData THEN [raised |-> TRUE, value |-> Absent]
    ELSE IF Len(r.body.data) = 0 THEN [raised |-> TRUE, value |-> Absent]
    ELSE IF r.body.data[1].value = Absent THEN [raised |-> TRUE, value |-> Absent]
    ELSE [raised |-> FALSE, value |-> r.body.data[1].value]

\* the function without its except clause
get_fear_greed_index_uncaught(r) == FearGreedTry(r)

get_fear_greed_index(r) ==
    IF FearGreedTry(r).raised THEN [raised |-> FALSE, value |-> NA]
    ELSE FearGreedTry(r)

GetFearGreed(Resps) ==
    /\ pc = "fg_call"
    /\ \E r \in Resps :
        /\ response' = r
        /\ requests' = <<"alternative.me">>
        /\ ret' = get_fear_greed_index(r)
    /\ pc' = "fg_done"
    /\ UNCHANGED <<primary_failure, prices, funding_rates, tier1_rates, i,
                   final_rates, fear_greed, now, data_row, csv, latest_json,
                   csv_before, json_before, runs>>

----------------------------------------------------------------------------
(* get_crypto_prices *)

PriceIds == {"bitcoin", "ethereum", "solana"}
PriceOrder == <<"bitcoin", "ethereum", "solana">>
Ticker == [bitcoin |-> "BTCUSDT", ethereum |-> "ETHUSDT", solana |-> "SOLUSDT"]
AllNA(keys) == [k \in keys |-> NA]

UsdValues == {Absent, Num(65000), Num(3500)}
PrimaryBodies == {NotJson} \cup {[json |-> TRUE, usd |-> u] : u \in [PriceIds -> UsdValues]}
PrimaryResponses == Answers(PrimaryBodies)

TickerSymbols == {Str("BTCUSDT"), Str("ETHUSDT"), Str("SOLUSDT"), Absent}
TickerPrices == {NumStr(64000), NumStr(3400), Str("abc"), Absent}
TickerEntries == [symbol : TickerSymbols, price : TickerPrices]
FallbackBodies == {NotJson} \cup
    {[json |-> TRUE, data |-> d] : d \in SeqsUpTo(TickerEntries, MaxTickers)}
FallbackResponses == Answers(FallbackBodies)

\* how the first try block ends: "ok" is the return of line 31
PrimaryOutcome(r) ==
    IF r.exc THEN "exception"
    ELSE IF r.status # HTTP_OK THEN "status"
    ELSE IF ~r.body.json THEN "body"
    ELSE IF \E id \in PriceIds : r.body.usd[id] = Absent THEN "body"
    ELSE "ok"

\* next((item for item in data if item['symbol'] == sym), None):
\* 0 is None, -1 is the KeyError of an entry without 'symbol'
FirstMatch(data, sym) ==
    LET stops == {k \in 1..Len(data) :
                    data[k].symbol = Absent \/ data[k].symbol = Str(sym)}
        first == CHOOSE k \in stops : \A j \in stops : k <= j
    IN  IF stops = {} THEN 0
        ELSE IF data[first].symbol = Absent THEN -1
        ELSE first

\* lines 50-55: the assignments in order, left at the first float() that raises
RECURSIVE AssignPrices(_, _, _)
AssignPrices(p, data, k) ==
    IF k > Len(PriceOrder) THEN p
    ELSE LET id == PriceOrder[k]
             m == FirstMatch(data, Ticker[id])
         IN  IF m = 0 THEN AssignPrices(p, data, k + 1)
             ELSE IF FloatRaises(data[m].price) THEN p
             ELSE AssignPrices([p EXCEPT ![id] = Float(data[m].price)], data, k + 1)

FallbackPrices(p, r) ==
    IF r.exc \/ r.status # HTTP_OK \/ ~r.body.json THEN p
    ELSE IF \E id \in PriceIds : FirstMatch(r.body.data, Ticker[id]) = -1 THEN p
    ELSE AssignPrices(p, r.body.data, 1)

\* a primary try block that falls through after a complete answer
AfterPrimaryNoReturn(outcome) == "prices_fallback"

\* a non-200 primary answer taken as final
AfterPrimaryStatusFinal(outcome) ==
    IF outcome \in {"ok", "status"} THEN "prices_done" ELSE "prices_fallback"

AfterPrimary(outcome) == IF outcome = "ok" THEN "prices_done" ELSE "prices_fallback"

PricesEnter ==
    /\ pc = "prices_enter"
    /\ prices' = AllNA(PriceIds)
    /\ requests' = <<>>
    /\ response' = NoResponse
    /\ primary_failure' = "none"
    /\ pc' = "prices_primary"
    /\ UNCHANGED <<ret, funding_rates, tier1_rates, i, final_rates, fear_greed,
                   now, data_row, csv, latest_json, csv_before, json_before, runs>>

PricesPrimary(Resps) ==
    /\ pc = "prices_primary"
    /\ \E r \in Resps :
        /\ response' = r
        /\ requests' = Append(requests, "coingecko")
        /\ primary_failure' = PrimaryOutcome(r)
        /\ prices' = IF PrimaryOutcome(r) = "ok"
                     THEN [id \in PriceIds |-> r.body.usd[id]]
                     ELSE prices
        /\ pc' = AfterPrimary(PrimaryOutcome(r))
    /\ UNCHANGED <<ret, funding_rates, tier1_rates, i, final_rates, fear_greed,
                   now, data_row, csv, latest_json, csv_before, json_before, runs>>

PricesFallback(Resps) ==
    /\ pc = "prices_fallback"
    /\ \E r \in Resps :
        /\ response' = r
        /\ requests' = Append(requests, "binance")
        /\ prices' = FallbackPrices(prices, r)
    /\ pc' = "prices_done"
    /\ UNCHANGED <<ret, primary_failure, funding_rates, tier1_rates, i,
                   final_rates, fear_greed, now, data_row, csv, latest_json,
                   csv_before, json_before, runs>>

----------------------------------------------------------------------------
(* get_funding_rates *)

Assets == {"BTC", "ETH", "SOL"}
symbols == <<"BTC", "ETH", "SOL">>
FinalKey == [BTC |-> "BTCUSDT", ETH |-> "ETHUSDT", SOL |-> "SOLUSDT"]
FinalKeys == {"BTCUSDT", "ETHUSDT", "SOLUSDT"}

CoinGlassRates == {Absent, Num(100), Num(-25), Str("abc")}
CoinGlassEntries == {[rate |-> v] : v \in CoinGlassRates}
CoinGlassBodies == {NotJson, [json |-> TRUE, hasData |-> FALSE, data |-> <<>>]} \cup
    {[json |-> TRUE, hasData |-> TRUE, data |-> d] : d \in SeqsUpTo(CoinGlassEntries, MaxEntries)}
CoinGlassResponses == Answers(CoinGlassBodies)

OkxInstIds == {Str("BTC-USD-SWAP"), Str("BTC-USDT-SWAP"), Str("ETH-USD-SWAP"),
               Str("SOL-USDT-SWAP"), Absent}
OkxRates == {NumStr(125), Str("abc"), Absent}
OkxItems == [instId : OkxInstIds, fundingRate : OkxRates]
OkxBodies == {NotJson, [json |-> TRUE, hasData |-> FALSE, data |-> <<>>]} \cup
    {[json |-> TRUE, hasData |-> TRUE, data |-> d] : d \in SeqsUpTo(OkxItems, MaxItems)}
OkxResponses == Answers(OkxBodies)

\* f"{float(v) * 100:.4f}%", the rate counted in millionths
FormatRate(v) == Pct(Float(v).n)

\* lines 74-88: one symbol's request; the rate is set or the dict is left alone
Tier1Rates(fr, sym, r) ==
    IF r.exc \/ r.status # HTTP_OK \/ ~r.body.json THEN fr
    ELSE IF ~r.body.hasData \/ Len(r.body.data) = 0 THEN fr
    ELSE IF r.body.data[1].rate = Absent THEN fr
    ELSE IF FloatRaises(r.body.data[1].rate) THEN fr
    ELSE [fr EXCEPT ![sym] = FormatRate(r.body.data[1].rate)]

\* lines 105-113: item.get('instId', '') matched against the instrument names
AssetOf(instId) ==
    IF instId \in {Str("BTC-USD-SWAP"), Str("BTC-USDT-SWAP")} THEN "BTC"
    ELSE IF instId \in {Str("ETH-USD-SWAP"), Str("ETH-USDT-SWAP")} THEN "ETH"
    ELSE IF instId \in {Str("SOL-USD-SWAP"), Str("SOL-USDT-SWAP")} THEN "SOL"
    ELSE ""

\* lines 103-113: the loop over data['data'], left at the first item whose
\* fundingRate is missing or no number (the except of line 115)
RECURSIVE Tier2Loop(_, _, _)
Tier2Loop(fr, data, k) ==
    IF k > Len(data) THEN fr
    ELSE IF AssetOf(data[k].instId) = "" THEN Tier2Loop(fr, data, k + 1)
    ELSE IF FloatRaises(data[k].fundingRate) THEN fr
    ELSE Tier2Loop([fr EXCEPT ![AssetOf(data[k].instId)] =
                        FormatRate(data[k].fundingRate)], data, k + 1)

Tier2Rates(fr, r) ==
    IF r.exc \/ r.status # HTTP_OK \/ ~r.body.json THEN fr
    ELSE IF ~r.body.hasData THEN fr
    ELSE Tier2Loop(fr, r.body.data, 1)

\* a fallback entered as soon as one asset is unresolved
Tier2NeededAny(fr) == \E a \in Assets : fr[a] = NA

\* line 94
Tier2Needed(fr) == \A a \in Assets : fr[a] = NA

\* a final step that hands the rate on as it is
FinalRateAsIs(v) == v

\* lines 120-122
FinalRate(v) == IF v # NA THEN v ELSE APIBlocked

FundingEnter ==
    /\ pc = "funding_enter"
    /\ funding_rates' = AllNA(Assets)
    /\ i' = 1
    /\ requests' = <<>>
    /\ response' = NoResponse
    /\ pc' = "funding_tier1"
    /\ UNCHANGED <<ret, primary_failure, prices, tier1_rates, final_rates,
                   fear_greed, now, data_row, csv, latest_json, csv_before,
                   json_before, runs>>

FundingTier1(Resps) ==
    /\ pc = "funding_tier1"
    /\ i <= Len(symbols)
    /\ \E r \in Resps :
        /\ response' = r
        /\ requests' = Append(requests, symbols[i])
        /\ funding_rates' = Tier1Rates(funding_rates, symbols[i], r)
    /\ i' = i + 1
    /\ pc' = IF i = Len(symbols) THEN "funding_tier2" ELSE "funding_tier1"
    /\ tier1_rates' = IF i = Len(symbols) THEN funding_rates' ELSE tier1_rates
    /\ UNCHANGED <<ret, primary_failure, prices, final_rates, fear_greed, now,
                   data_row, csv, latest_json, csv_before, json_before, runs>>

FundingTier2(Resps) ==
    /\ pc = "funding_tier2"
    /\ \/ /\ Tier2Needed(funding_rates)
          /\ \E r \in Resps :
               /\ response' = r
               /\ requests' = Append(requests, "okx")
               /\ funding_rates' = Tier2Rates(funding_rates, r)
       \/ /\ ~Tier2Needed(funding_rates)
          /\ UNCHANGED <<response, requests, funding_rates>>
    /\ pc' = "funding_final"
    /\ UNCHANGED <<ret, primary_failure, prices, tier1_rates, i, final_rates,
                   fear_greed, now, data_row, csv, latest_json, csv_before,
                   json_before, runs>>

FundingFinal ==
    /\ pc = "funding_final"
    /\ final_rates' = [key \in FinalKeys |->
                          FinalRate(funding_rates[CHOOSE a \in Assets : FinalKey[a] = key])]
    /\ pc' = "funding_done"
    /\ UNCHANGED <<requests, response, ret, primary_failure, prices,
                   funding_rates, tier1_rates, i, fear_greed, now, data_row,
                   csv, latest_json, csv_before, json_before, runs>>

----------------------------------------------------------------------------
(* The state before anything has run *)

NoFile == [exists |-> FALSE, header |-> <<>>, rows |-> <<>>]
NoSnapshot == [exists |-> FALSE, obj |-> [c \in {} |-> NA]]

InitAt(p) ==
    /\ pc = p
    /\ requests = <<>>
    /\ response = NoResponse
    /\ ret = [raised |-> FALSE, value |-> Absent]
    /\ primary_failure = "none"
    /\ prices = [id \in {} |-> NA]
    /\ funding_rates = [a \in {} |-> NA]
    /\ tier1_rates = [a \in {} |-> NA]
    /\ i = 1
    /\ final_rates = [a \in {} |-> NA]
    /\ fear_greed = Absent
    /\ now = 0
    /\ data_row = [c \in {} |-> NA]
    /\ csv = NoFile
    /\ latest_json = NoSnapshot
    /\ csv_before = NoFile
    /\ json_before = NoSnapshot
    /\ runs = 0

----------------------------------------------------------------------------
(* log_crypto_data *)

Columns == <<"Date", "Time", "Fear_Greed_Index",
             "BTC_Price", "BTC_Funding_Rate", "BTC_Open_Interest",
             "ETH_Price", "ETH_Funding_Rate", "ETH_Open_Interest",
             "SOL_Price", "SOL_Funding_Rate", "SOL_Open_Interest">>
ColumnSet == {Columns[k] : k \in 1..Len(Columns)}

\* now_central.strftime(...): the str of the clock value x
Stamp(x) == [t |-> "stamp", s |-> "", n |-> x]

\* pandas: the cell texts read_csv takes for a missing value by default
NAValues == {Str(""), Str("#N/A"), Str("#N/A N/A"), Str("#NA"), Str("-1.#IND"),
             Str("-1.#QNAN"), Str("-NaN"), Str("-nan"), Str("1.#IND"),
             Str("1.#QNAN"), Str("<NA>"), Str("N/A"), Str("NA"), Str("NULL"),
             Str("NaN"), Str("None"), Str("n/a"), Str("nan"), Str("null")}

\* pandas: the text to_csv writes for a value (na_rep is '')
ToCell(v) ==
    IF v \in {NaN, Null} THEN Str("")
    ELSE IF v.t = "num" THEN NumStr(v.n)
    ELSE v

\* pandas: the value read_csv gives for a cell text
FromCell(c) ==
    IF c \in NAValues THEN NaN
    ELSE IF c.t = "numstr" THEN Num(c.n)
    ELSE c

read_csv(file) ==
    [columns |-> file.header,
     rows |-> [k \in 1..Len(file.rows) |->
                 [c \in DOMAIN file.rows[k] |-> FromCell(file.rows[k][c])]]]

DataFrame(row) == [columns |-> Columns, rows |-> <<row>>]

concat(a, b) == [columns |-> a.columns, rows |-> a.rows \o b.rows]

to_csv(df) ==
    [exists |-> TRUE,
     header |-> df.columns,
     rows |-> [k \in 1..Len(df.rows) |->
                 [c \in DOMAIN df.rows[k] |-> ToCell(df.rows[k][c])]]]

\* lines 179-189
WriteDataset(file, row) ==
    IF file.exists
    THEN to_csv(concat(read_csv(file), DataFrame(row)))
    ELSE to_csv(DataFrame(row))

\* a snapshot that is written only when there is none yet
WriteSnapshotOnce(old, row) ==
    IF old.exists THEN old ELSE [exists |-> TRUE, obj |-> row]

\* lines 193-194
WriteSnapshot(old, row) == [exists |-> TRUE, obj |-> row]

\* lines 158-171
BuildRecord(t, fg, p, fr) ==
    [c \in ColumnSet |->
        CASE c = "Date" -> Stamp(t)
          [] c = "Time" -> Stamp(t)
          [] c = "Fear_Greed_Index" -> fg
          [] c = "BTC_Price" -> p["bitcoin"]
          [] c = "BTC_Funding_Rate" -> fr["BTCUSDT"]
          [] c = "ETH_Price" -> p["ethereum"]
          [] c = "ETH_Funding_Rate" -> fr["ETHUSDT"]
          [] c = "SOL_Price" -> p["solana"]
          [] c = "SOL_Funding_Rate" -> fr["SOLUSDT"]
          [] OTHER -> NA]

LogStart ==
    /\ pc = "log_start"
    /\ runs < MaxRuns
    /\ now' = runs + 1
    /\ csv_before' = csv
    /\ json_before' = latest_json
    /\ pc' = "fg_call"
    /\ UNCHANGED <<requests, response, ret, primary_failure, prices,
                   funding_rates, tier1_rates, i, final_rates, fear_greed,
                   data_row, csv, latest_json, runs>>

\* line 147: the call returns, or its exception leaves the run
LogSentiment ==
    /\ pc = "fg_done"
    /\ fear_greed' = IF ret.raised THEN fear_greed ELSE ret.value
    /\ pc' = IF ret.raised THEN "failed" ELSE "prices_enter"
    /\ requests' = <<>>
    /\ response' = NoResponse
    /\ UNCHANGED <<ret, primary_failure, prices, funding_rates, tier1_rates, i,
                   final_rates, now, data_row, csv, latest_json, csv_before,
                   json_before, runs>>

\* lines 150-152
LogPrices ==
    /\ pc = "prices_done"
    /\ pc' = "funding_enter"
    /\ requests' = <<>>
    /\ response' = NoResponse
    /\ primary_failure' = "none"
    /\ UNCHANGED <<ret, prices, funding_rates, tier1_rates, i, final_rates,
                   fear_greed, now, data_row, csv, latest_json, csv_before,
                   json_before, runs>>

\* line 155
LogFunding ==
    /\ pc = "funding_done"
    /\ pc' = "build_row"
    /\ requests' = <<>>
    /\ response' = NoResponse
    /\ funding_rates' = [a \in {} |-> NA]
    /\ tier1_rates' = [a \in {} |-> NA]
    /\ i' = 1
    /\ UNCHANGED <<ret, primary_failure, prices, final_rates, fear_greed, now,
                   data_row, csv, latest_json, csv_before, json_before, runs>>

\* lines 158-173: a key that is not in a dict raises KeyError
BuildRow ==
    /\ pc = "build_row"
    /\ IF PriceIds \subseteq DOMAIN prices /\ FinalKeys \subseteq DOMAIN final_rates
       THEN /\ data_row' = BuildRecord(now, fear_greed, prices, final_rates)
            /\ pc' = "persist_csv"
       ELSE /\ pc' = "failed"
            /\ UNCHANGED data_row
    /\ UNCHANGED <<requests, response, ret, primary_failure, prices,
                   funding_rates, tier1_rates, i, final_rates, fear_greed, now,
                   csv, latest_json, csv_before, json_before, runs>>

\* lines 176-190
PersistCsv ==
    /\ pc = "persist_csv"
    /\ csv' = WriteDataset(csv, data_row)
    /\ pc' = "persist_json"
    /\ UNCHANGED <<requests, response, ret, primary_failure, prices,
                   funding_rates, tier1_rates, i, final_rates, fear_greed, now,
                   data_row, latest_json, csv_before, json_before, runs>>

\* lines 193-194
PersistJson ==
    /\ pc = "persist_json"
    /\ latest_json' = WriteSnapshot(latest_json, data_row)
    /\ pc' = "log_done"
    /\ UNCHANGED <<requests, response, ret, primary_failure, prices,
                   funding_rates, tier1_rates, i, final_rates, fear_greed, now,
                   data_row, csv, csv_before, json_before, runs>>

\* lines 196-202: the run returns and the process ends; the files stay
LogReturn ==
    /\ pc = "log_done"
    /\ pc' = "log_start"
    /\ runs' = runs + 1
    /\ ret' = [raised |-> FALSE, value |-> Absent]
    /\ prices' = [id \in {} |-> NA]
    /\ final_rates' = [a \in {} |-> NA]
    /\ fear_greed' = Absent
    /\ data_row' = [c \in {} |-> NA]
    /\ UNCHANGED <<requests, response, primary_failure, funding_rates,
                   tier1_rates, i, now, csv, latest_json, csv_before,
                   json_before>>

\* the answers the sources give in a run: each source fails or succeeds
Ok(body) == [exc |-> FALSE, status |-> HTTP_OK, body |-> body]
RunSentimentResponses ==
    {Raised, Ok([json |-> TRUE, hasData |-> TRUE, data |-> <<[value |-> NumStr(1)]>>])}
RunPrimaryResponses ==
    {Raised, Ok([json |-> TRUE, usd |-> [bitcoin |-> Num(65000), ethereum |-> Num(3500),
                                         solana |-> Num(3500)]])}
RunFallbackResponses ==
    {Raised, Ok([json |-> TRUE, data |->
        <<[symbol |-> Str("BTCUSDT"), price |-> NumStr(64000)],
          [symbol |-> Str("ETHUSDT"), price |-> NumStr(3400)]>>])}
RunCoinGlassResponses ==
    {Raised, Ok([json |-> TRUE, hasData |-> TRUE, data |-> <<[rate |-> Num(100)]>>])}
RunOkxResponses ==
    {Raised, Ok([json |-> TRUE, hasData |-> TRUE, data |->
        <<[instId |-> Str("BTC-USDT-SWAP"), fundingRate |-> NumStr(125)],
          [instId |-> Str("ETH-USD-SWAP"), fundingRate |-> NumStr(125)]>>])}

Init == InitAt("log_start")

Next ==
    \/ LogStart
    \/ GetFearGreed(RunSentimentResponses)
    \/ LogSentiment
    \/ PricesEnter
    \/ PricesPrimary(RunPrimaryResponses)
    \/ PricesFallback(RunFallbackResponses)
    \/ LogPrices
    \/ FundingEnter
    \/ FundingTier1(RunCoinGlassResponses)
    \/ FundingTier2(RunOkxResponses)
    \/ FundingFinal
    \/ LogFunding
    \/ BuildRow
    \/ PersistCsv
    \/ PersistJson
    \/ LogReturn

\* the runs of log_crypto_data, one after the other, over the two files
Spec == Init /\ [][Next]_vars

----------------------------------------------------------------------------
(* Specifications of the single fetchers *)


\* one call of get_fear_greed_index, over every answer of the endpoint
NextSentiment == GetFearGreed(SentimentResponses)
SpecSentiment == InitAt("fg_call") /\ [][NextSentiment]_vars

\* one call of get_crypto_prices, over every answer of the two endpoints
NextPrices ==
    \/ PricesEnter
    \/ PricesPrimary(PrimaryResponses)
    \/ PricesFallback(FallbackResponses)
SpecPrices == InitAt("prices_enter") /\ [][NextPrices]_vars

\* one call of get_funding_rates, over every answer of the two endpoints
NextFunding ==
    \/ FundingEnter
    \/ FundingTier1(CoinGlassResponses)
    \/ FundingTier2(OkxResponses)
    \/ FundingFinal
SpecFunding == InitAt("funding_enter") /\ [][NextFunding]_vars

----------------------------------------------------------------------------
(* Claims about get_crypto_prices *)

JsonList(r) ==
    ~r.exc /\ r.status = HTTP_OK /\ r.body.json /\ "data" \in DOMAIN r.body

\* the first entry of the list that carries the symbol, 0 when there is none
OwnEntry(data, sym) ==
    LET own == {k \in 1..Len(data) : data[k].symbol = Str(sym)}
    IN  IF own = {} THEN 0 ELSE CHOOSE k \in own : \A j \in own : k <= j

\* C1: whenever the CoinGecko request fails (exception, non-200 status, or a
\* 200 body missing a key), the Binance ticker request is issued exactly
\* once, and a price is populated only for an asset whose symbol is in the
\* Binance response (with that entry's price); every other asset stays 'N/A'.
C1_FallbackOnceOnlyPresent ==
    /\ pc = "prices_fallback" =>
          primary_failure \in {"exception", "status", "body"}
          /\ requests = <<"coingecko">>
    /\ (pc = "prices_done" /\ primary_failure # "ok") =>
          /\ primary_failure \in {"exception", "status", "body"}
          /\ requests = <<"coingecko", "binance">>
          /\ \A id \in PriceIds :
                prices[id] # NA =>
                    /\ JsonList(response)
                    /\ OwnEntry(response.body.data, Ticker[id]) > 0
                    /\ prices[id] =
                         Num(response.body.data[OwnEntry(response.body.data, Ticker[id])].price.n)

\* C1 witness: CoinGecko answered 200 without a key, Binance listed BTCUSDT
\* and ETHUSDT only: BTC and ETH are populated, SOL stays 'N/A'.
C1_Witness ==
    /\ pc = "prices_done"
    /\ primary_failure = "body"
    /\ JsonList(response)
    /\ OwnEntry(response.body.data, "BTCUSDT") > 0
    /\ OwnEntry(response.body.data, "ETHUSDT") > 0
    /\ OwnEntry(response.body.data, "SOLUSDT") = 0
    /\ prices["bitcoin"] = Num(64000)
    /\ prices["ethereum"] = Num(3400)
    /\ prices["solana"] = NA

WellFormedPrimary(r) ==
    /\ ~r.exc
    /\ r.status = HTTP_OK
    /\ r.body.json
    /\ "usd" \in DOMAIN r.body
    /\ \A id \in PriceIds : r.body.usd[id] # Absent

\* C2: when CoinGecko answers 200 with usd prices for bitcoin, ethereum and
\* solana, exactly those three values are returned and Binance is never
\* requested; the result never mixes values of the two sources.
C2_PrimaryPassthrough ==
    /\ pc = "prices_fallback" => ~WellFormedPrimary(response)
    /\ "binance" \notin {requests[k] : k \in 1..Len(requests)} =>
          (pc = "prices_done" =>
              /\ WellFormedPrimary(response)
              /\ requests = <<"coingecko">>
              /\ prices = [id \in PriceIds |-> response.body.usd[id]])
    /\ "binance" \in {requests[k] : k \in 1..Len(requests)} =>
          \A id \in PriceIds : prices[id] \notin UsdValues

\* C2 witness: the spec's scenario, a complete CoinGecko answer passed through.
C2_Witness ==
    /\ pc = "prices_done"
    /\ requests = <<"coingecko">>
    /\ WellFormedPrimary(response)
    /\ prices["bitcoin"] = Num(65000)
    /\ prices["ethereum"] = Num(3500)
    /\ prices["solana"] = Num(65000)

\* C10: in the Binance path each asset is extracted on its own: an asset
\* whose entry is well-formed is populated with its price even when another
\* entry of the list is malformed (no price, a price that is no number, or
\* no symbol).
C10_FallbackPerAssetIndependent ==
    (pc = "prices_done" /\ primary_failure # "ok" /\ JsonList(response)) =>
        \A id \in PriceIds :
            LET k == OwnEntry(response.body.data, Ticker[id])
            IN  (k > 0 /\ ~FloatRaises(response.body.data[k].price)) =>
                    prices[id] = Float(response.body.data[k].price)

----------------------------------------------------------------------------
(* Claims about get_fear_greed_index *)

WellFormedSentiment(r) ==
    /\ r.body.json
    /\ r.body.hasData
    /\ Len(r.body.data) > 0
    /\ r.body.data[1].value # Absent

\* C6: get_fear_greed_index returns 'N/A' on any transport error, any parse
\* error and any non-2xx response, and the raw index value only on a success
\* with a well-formed body.
C6_SentinelUnlessSuccess ==
    pc = "fg_done" =>
        /\ ~ret.raised
        /\ IF ~response.exc /\ response.status \in 200..299
                /\ WellFormedSentiment(response)
           THEN ret.value = response.body.data[1].value
           ELSE ret.value = NA

----------------------------------------------------------------------------
(* Claims about get_funding_rates *)

AfterTier1 == pc \in {"funding_tier2", "funding_final", "funding_done"}
AfterTier2 == pc \in {"funding_final", "funding_done"}
Requested(e) == e \in {requests[k] : k \in 1..Len(requests)}

\* C3: an asset whose rate was set by tier 1 keeps that value: neither
\* tier 2 nor the final sentinel step overwrites it.
C3_EarlierTierKept ==
    AfterTier1 =>
        \A a \in Assets :
            tier1_rates[a] # NA =>
                /\ funding_rates[a] = tier1_rates[a]
                /\ pc = "funding_done" => final_rates[FinalKey[a]] = tier1_rates[a]

\* C3 witness: tier 1 resolved BTC alone, and the function has finished.
C3_Witness ==
    /\ pc = "funding_done"
    /\ tier1_rates["BTC"] = Pct(100)
    /\ tier1_rates["ETH"] = NA
    /\ final_rates["BTCUSDT"] = Pct(100)
    /\ final_rates["ETHUSDT"] = APIBlocked

\* the list has items naming the asset, each with a rate that is a number
HasGoodItem(data, a) ==
    /\ \E k \in 1..Len(data) : AssetOf(data[k].instId) = a
    /\ \A k \in 1..Len(data) :
          AssetOf(data[k].instId) = a => ~FloatRaises(data[k].fundingRate)

\* C4: a failure for one asset stops nothing else in its tier nor the next
\* tier: tier 1 always issues its three requests, tier 2 is entered when all
\* are unresolved, and in tier 2 every asset whose own items in the bulk
\* response are well-formed is extracted even when another asset's item is bad.
C4_FailureIsolatedPerAsset ==
    /\ pc = "funding_tier1" => requests = SubSeq(symbols, 1, i - 1)
    /\ AfterTier1 => SubSeq(requests, 1, 3) = symbols
    /\ (AfterTier2 /\ \A a \in Assets : tier1_rates[a] = NA) =>
          requests = symbols \o <<"okx">>
    /\ (AfterTier2 /\ Requested("okx") /\ JsonList(response) /\ response.body.hasData) =>
          \A a \in Assets :
              HasGoodItem(response.body.data, a) => funding_rates[a] # NA

\* C5: each returned value is a formatted rate or 'API Blocked', never
\* 'N/A'; an asset unresolved after tiers 1 and 2 gets 'API Blocked'; when
\* every source failed for every asset all three values are 'API Blocked'.
C5_TerminalSentinel ==
    pc = "funding_done" =>
        /\ DOMAIN final_rates = FinalKeys
        /\ \A a \in Assets :
              /\ final_rates[FinalKey[a]] # NA
              /\ final_rates[FinalKey[a]].t = "pct" \/ final_rates[FinalKey[a]] = APIBlocked
              /\ funding_rates[a] = NA => final_rates[FinalKey[a]] = APIBlocked
              /\ funding_rates[a] # NA => final_rates[FinalKey[a]] = funding_rates[a]
        /\ ((\A a \in Assets : tier1_rates[a] = NA)
              /\ (response.exc \/ response.status # HTTP_OK \/ ~response.body.json))
           => \A key \in FinalKeys : final_rates[key] = APIBlocked

\* C5 witness: every CoinGlass request and the OKX request failed.
C5_Witness ==
    /\ pc = "funding_done"
    /\ \A a \in Assets : tier1_rates[a] = NA
    /\ Requested("okx")
    /\ response.exc
    /\ \A key \in FinalKeys : final_rates[key] = APIBlocked

----------------------------------------------------------------------------
(* Claims about log_crypto_data *)

RowCells(row) == [c \in DOMAIN row |-> ToCell(row[c])]

\* C7: a completed run extends the dataset by exactly one record placed
\* last: a file of N records holds N+1 afterwards with the first N unchanged
\* and in the same order; a file that did not exist holds the header and the
\* one new record.
C7_AppendPreservesPrior ==
    pc = "log_done" =>
        /\ csv.exists
        /\ csv.header = Columns
        /\ csv.rows = (IF csv_before.exists THEN csv_before.rows ELSE <<>>)
                        \o <<RowCells(data_row)>>

\* C8: after a completed run latest_data.json holds exactly the record the
\* run built, which is also the last row of the dataset, whatever the
\* snapshot or the dataset held before.
C8_SnapshotIsNewestRecord ==
    /\ pc = "log_done" =>
          /\ latest_json = [exists |-> TRUE, obj |-> data_row]
          /\ DOMAIN latest_json.obj = ColumnSet
          /\ csv.rows[Len(csv.rows)] = RowCells(data_row)
    /\ (pc = "log_start" /\ runs > 0) =>
          /\ latest_json.exists
          /\ csv.rows[Len(csv.rows)] = RowCells(latest_json.obj)

\* C8 witness: a run has completed over an older snapshot and an existing
\* dataset, and the snapshot now holds the new, different record.
C8_Witness ==
    /\ pc = "log_done"
    /\ csv_before.exists
    /\ json_before.exists
    /\ json_before.obj["BTC_Price"] # data_row["BTC_Price"]
    /\ latest_json.obj = data_row

Collecting == {"fg_call", "fg_done", "prices_enter", "prices_primary",
               "prices_fallback", "prices_done", "funding_enter",
               "funding_tier1", "funding_tier2", "funding_final",
               "funding_done", "build_row", "persist_csv"}
Built == {"persist_csv", "persist_json", "log_done"}

\* C9: whatever sources fail, the run does not abort while collecting; the
\* record it builds has all twelve fields, a failed metric carrying a
\* sentinel string; no file is written before the record is built; the run
\* then writes both files and completes.
C9_RunBuildsThenPersists ==
    /\ pc # "failed"
    /\ pc \in Collecting => (csv = csv_before /\ latest_json = json_before)
    /\ pc \in Built =>
          /\ DOMAIN data_row = ColumnSet
          /\ Cardinality(ColumnSet) = 12
          /\ \A c \in ColumnSet : data_row[c] \notin {Absent, NaN, Null}
          /\ data_row["Fear_Greed_Index"].t # "numstr" => data_row["Fear_Greed_Index"] = NA
          /\ \A c \in {"BTC_Price", "ETH_Price", "SOL_Price"} :
                data_row[c].t # "num" => data_row[c] = NA
          /\ \A c \in {"BTC_Funding_Rate", "ETH_Funding_Rate", "SOL_Funding_Rate"} :
                data_row[c].t # "pct" => data_row[c] = APIBlocked
    /\ pc = "log_done" =>
          /\ csv.exists
          /\ latest_json.exists
          /\ Len(csv.rows) = runs + 1
    /\ pc # "log_start" => ENABLED Next

\* C9 witness: every source failed, and the run has persisted a record whose
\* metrics are all sentinels.
C9_Witness ==
    /\ pc = "log_done"
    /\ data_row["Fear_Greed_Index"] = NA
    /\ \A c \in {"BTC_Price", "ETH_Price", "SOL_Price"} : data_row[c] = NA
    /\ \A c \in {"BTC_Funding_Rate", "ETH_Funding_Rate", "SOL_Funding_Rate"} :
          data_row[c] = APIBlocked
    /\ csv.rows[Len(csv.rows)] = RowCells(data_row)
    /\ latest_json.obj = data_row

====
